---- MODULE Spec2Model ----
(***************************************************************************)
(* Cut detection of videocatalog: noise zones, noise suppression,          *)
(* candidate building, greedy selection and the verification cascade       *)
(* (src/videocatalog/detection.py), with the confidence score of           *)
(* CutCandidate (src/videocatalog/models.py).                              *)
(*                                                                         *)
(* Fixed-point encoding of the floats of the source:                       *)
(*   times, durations and min_gap   in tenths of a second                  *)
(*   scene scores and audio steps   in tenths of a point / of a dB         *)
(*   similarities                   in thousandths                         *)
(* so int(x) of the source is PyInt(x), and 0.2 s is 2, 8 points is 80,    *)
(* 5 dB is 50, 0.7 is 700.                                                 *)
(***************************************************************************)
EXTENDS Integers, Sequences, FiniteSets, TLC

VARIABLES
    scenes,          \* find_cuts argument: list of (time, score)
    blacks,          \* find_cuts argument: list of (end_time, duration)
    audio_changes,   \* find_cuts argument: dict second -> step, in insertion order
    min_confidence,  \* caller parameter
    min_gap,         \* caller parameter
    pc,              \* position in detect_cuts / verify_candidates
    noise_zones,     \* find_cuts: noise_zones
    all_candidates,  \* find_cuts: candidates
    scene_max,       \* find_cuts: scene_max
    cuts,            \* find_cuts: result (the selected candidates)
    idx,             \* verify_candidates: index of the candidate c of the for loop
    verified,        \* verify_candidates: verified
    outcome,         \* per candidate of cuts, in order: "PASS" or "FAIL"
    calls,           \* frame comparisons issued so far: (time, check)
    last,            \* the most recent verdict with the similarities it read
    cand,            \* scoring: a CutCandidate
    conf,            \* scoring: its confidence_score and score_breakdown
    S,               \* suppression: a scene list
    Z,               \* suppression: a zone list
    once,            \* suppress_noise_detections(S, Z)
    twice,           \* suppress_noise_detections(once, Z)
    raw_zones,       \* detect_noise_zones: zones before "Merge zones within merge_gap"
    boundaries,      \* split_video: boundaries
    output_files     \* split_video: output_files

vars == <<scenes, blacks, audio_changes, min_confidence, min_gap, pc,
          noise_zones, all_candidates, scene_max, cuts, idx, verified,
          outcome, calls, last, cand, conf, S, Z, once, twice, raw_zones,
          boundaries, output_files>>

pipelineVars == <<scenes, blacks, audio_changes, min_confidence, min_gap,
                  noise_zones, all_candidates, scene_max, cuts, idx, verified,
                  outcome, calls, last, raw_zones, boundaries, output_files>>
scoreVars == <<cand, conf>>
suppressVars == <<S, Z, once, twice>>

-----------------------------------------------------------------------------
(* Arithmetic helpers *)

\* Python's int() of a float held in tenths: truncation toward zero
PyInt(x) == IF x >= 0 THEN x \div 10 ELSE -((-x) \div 10)

Abs(x) == IF x >= 0 THEN x ELSE -x

SetMax(A) == CHOOSE x \in A : \A y \in A : y <= x

SetMin(A) == CHOOSE x \in A : \A y \in A : x <= y

Range(s) == {s[i] : i \in DOMAIN s}

\* Python's sorted(): stable, ascending by the key k of each entry
RECURSIVE InsertStable(_, _)
InsertStable(s, x) ==
    IF s = <<>> THEN <<x>>
    ELSE IF s[Len(s)].k <= x.k THEN Append(s, x)
    ELSE Append(InsertStable(SubSeq(s, 1, Len(s) - 1), x), s[Len(s)])

RECURSIVE StableSort(_)
StableSort(s) ==
    IF s = <<>> THEN <<>>
    ELSE InsertStable(StableSort(SubSeq(s, 1, Len(s) - 1)), s[Len(s)])

-----------------------------------------------------------------------------
(* models.py: CutCandidate *)

BlackBonusMin == 2      \* black_duration >= 0.2
AudioBonusMin == 50     \* audio_step >= 5

CutCandidate(t, sc, bd, as) ==
    [time |-> t, scene_score |-> sc, black_duration |-> bd, audio_step |-> as]

score_breakdown(c) ==
    [scene_pts |-> PyInt(c.scene_score),
     black_pts |-> IF c.black_duration >= BlackBonusMin THEN 10 ELSE 0,
     audio_pts |-> IF c.audio_step >= AudioBonusMin THEN 10 ELSE 0]

\* a slip: the black bonus granted in a band of durations only
confidence_score_band(c) ==
    PyInt(c.scene_score)
      + (IF c.black_duration >= BlackBonusMin /\ c.black_duration < 10 THEN 10 ELSE 0)
      + (IF c.audio_step >= AudioBonusMin THEN 10 ELSE 0)

confidence_score(c) ==
    PyInt(c.scene_score)
      + (IF c.black_duration >= BlackBonusMin THEN 10 ELSE 0)
      + (IF c.audio_step >= AudioBonusMin THEN 10 ELSE 0)

-----------------------------------------------------------------------------
(* detection.py: detect_noise_zones *)

window_size == 10        \* seconds
AvgThresholdTenths == 25 \* avg_threshold = 2.5 detections per second
min_duration == 10       \* seconds
merge_gap == 5           \* seconds

NoiseZone(s, e, n) == [start |-> s, end |-> e, detection_count |-> n]

\* Counter(int(t) for t, _ in scenes)
detections_per_sec(sc) ==
    [s \in {PyInt(sc[i].time) : i \in DOMAIN sc} |->
        Cardinality({i \in DOMAIN sc : PyInt(sc[i].time) = s})]

CounterGet(cnt, s) == IF s \in DOMAIN cnt THEN cnt[s] ELSE 0

\* sum(detections_per_sec.get(t + i, 0) for i in range(n))
RECURSIVE WindowTotal(_, _, _)
WindowTotal(cnt, t, n) ==
    IF n <= 0 THEN 0 ELSE CounterGet(cnt, t + n - 1) + WindowTotal(cnt, t, n - 1)

\* the loop run over every second up to max_t: range(min_t, max_t + 1)
high_density_secs_to_max(cnt) ==
    LET min_t == SetMin(DOMAIN cnt)
        max_t == SetMax(DOMAIN cnt)
        n     == (max_t + 1) - min_t
    IN  SelectSeq([i \in 1..n |-> min_t + i - 1],
                  LAMBDA t : WindowTotal(cnt, t, window_size) * 10
                               >= AvgThresholdTenths * window_size)

\* the loop over range(min_t, max_t - window_size + 2)
high_density_secs(cnt) ==
    LET min_t == SetMin(DOMAIN cnt)
        max_t == SetMax(DOMAIN cnt)
        n     == (max_t - window_size + 2) - min_t
    IN  IF n <= 0 THEN <<>>
        ELSE SelectSeq([i \in 1..n |-> min_t + i - 1],
                       LAMBDA t : WindowTotal(cnt, t, window_size) * 10
                                    >= AvgThresholdTenths * window_size)

\* one zone of the grouping loop: kept when long enough
CloseZone(cnt, zone_start, zone_end) ==
    LET zone_duration == zone_end - zone_start + window_size
    IN  IF zone_duration >= min_duration
        THEN <<NoiseZone(zone_start * 10, (zone_start + zone_duration) * 10,
                         WindowTotal(cnt, zone_start, zone_duration))>>
        ELSE <<>>

\* "Group consecutive seconds into zones", from high_density_secs[i] on
RECURSIVE GroupZones(_, _, _, _, _, _)
GroupZones(cnt, hs, i, zone_start, zone_end, zones) ==
    IF i > Len(hs) THEN zones \o CloseZone(cnt, zone_start, zone_end)
    ELSE IF hs[i] <= zone_end + 1
         THEN GroupZones(cnt, hs, i + 1, zone_start, hs[i], zones)
         ELSE GroupZones(cnt, hs, i + 1, hs[i], hs[i],
                         zones \o CloseZone(cnt, zone_start, zone_end))

\* the merge taking only zones that lie apart: 0 <= gap <= merge_gap
RECURSIVE MergeZones_apart_only(_, _, _)
MergeZones_apart_only(zones, i, merged) ==
    IF i > Len(zones) THEN merged
    ELSE LET z  == zones[i]
             lz == merged[Len(merged)]
         IN  IF 0 <= z.start - lz.end /\ z.start - lz.end <= merge_gap * 10
             THEN MergeZones_apart_only(zones, i + 1,
                      [merged EXCEPT ![Len(merged)] =
                          NoiseZone(lz.start, z.end,
                                    lz.detection_count + z.detection_count)])
             ELSE MergeZones_apart_only(zones, i + 1, Append(merged, z))

\* a slip: < for <=
RECURSIVE MergeZones_strict(_, _, _)
MergeZones_strict(zones, i, merged) ==
    IF i > Len(zones) THEN merged
    ELSE LET z  == zones[i]
             lz == merged[Len(merged)]
         IN  IF z.start - lz.end < merge_gap * 10
             THEN MergeZones_strict(zones, i + 1,
                      [merged EXCEPT ![Len(merged)] =
                          NoiseZone(lz.start, z.end,
                                    lz.detection_count + z.detection_count)])
             ELSE MergeZones_strict(zones, i + 1, Append(merged, z))

\* "Merge zones within merge_gap", from zones[i] on
RECURSIVE MergeZones(_, _, _)
MergeZones(zones, i, merged) ==
    IF i > Len(zones) THEN merged
    ELSE LET z  == zones[i]
             lz == merged[Len(merged)]
         IN  IF z.start - lz.end <= merge_gap * 10
             THEN MergeZones(zones, i + 1,
                      [merged EXCEPT ![Len(merged)] =
                          NoiseZone(lz.start, z.end,
                                    lz.detection_count + z.detection_count)])
             ELSE MergeZones(zones, i + 1, Append(merged, z))

\* detect_noise_zones down to line 536: the zones of the grouping loop
zones_before_merge(sc) ==
    IF sc = <<>> THEN <<>>
    ELSE LET cnt == detections_per_sec(sc)
             hs  == high_density_secs(cnt)
         IN  IF hs = <<>> THEN <<>>
             ELSE GroupZones(cnt, hs, 2, hs[1], hs[1], <<>>)

detect_noise_zones(sc) ==
    IF sc = <<>> THEN <<>>
    ELSE LET cnt == detections_per_sec(sc)
             hs  == high_density_secs(cnt)
         IN  IF hs = <<>> THEN <<>>
             ELSE LET zones == GroupZones(cnt, hs, 2, hs[1], hs[1], <<>>)
                  IN  IF Len(zones) > 1
                      THEN MergeZones(zones, 2, <<zones[1]>>)
                      ELSE zones

-----------------------------------------------------------------------------
(* detection.py: suppress_noise_detections *)

boundary_margin == 5     \* seconds

\* a slip: the margins compared with <= so that the events exactly 5 s from a
\* boundary are removed as well
in_noise_inclusive(e, zones) ==
    \E j \in DOMAIN zones :
        /\ zones[j].start + boundary_margin * 10 <= e.time
        /\ e.time <= zones[j].end - boundary_margin * 10

\* the inner loop over noise_zones: inside a zone, outside its boundary margins
in_noise(e, zones) ==
    \E j \in DOMAIN zones :
        /\ zones[j].start + boundary_margin * 10 < e.time
        /\ e.time < zones[j].end - boundary_margin * 10

\* a slip: removing from the list being iterated, which skips the event
\* that follows each removed one
RECURSIVE RemoveWhileIterating(_, _, _)
RemoveWhileIterating(sc, i, zones) ==
    IF i > Len(sc) THEN sc
    ELSE IF in_noise(sc[i], zones)
         THEN RemoveWhileIterating(SubSeq(sc, 1, i - 1) \o SubSeq(sc, i + 1, Len(sc)),
                                   i + 1, zones)
         ELSE RemoveWhileIterating(sc, i + 1, zones)

suppress_noise_detections_inplace(sc, zones) ==
    IF zones = <<>> THEN sc ELSE RemoveWhileIterating(sc, 1, zones)

suppress_noise_detections(sc, zones) ==
    IF zones = <<>> THEN sc
    ELSE SelectSeq(sc, LAMBDA e : ~in_noise(e, zones))

-----------------------------------------------------------------------------
(* detection.py: find_cuts, candidate building *)

SceneFloor == 80         \* "if max_score < 8: continue"
AudioGate == 100         \* "best_audio_step if max_score >= 10 else 0.0"
AudioOnlyMin == 150      \* "if step >= 15 and t not in scene_totals"
window == 2              \* seconds searched on each side for corroboration

\* keys of scene_clusters, in insertion order (first appearance)
RECURSIVE ClusterKeys(_, _, _)
ClusterKeys(fs, i, keys) ==
    IF i > Len(fs) THEN keys
    ELSE IF PyInt(fs[i].time) \in Range(keys)
         THEN ClusterKeys(fs, i + 1, keys)
         ELSE ClusterKeys(fs, i + 1, Append(keys, PyInt(fs[i].time)))

\* scene_clusters[t]
scene_cluster(fs, t) == SelectSeq(fs, LAMBDA e : PyInt(e.time) = t)

RECURSIVE SumScores(_)
SumScores(d) ==
    IF d = <<>> THEN 0 ELSE d[Len(d)].score + SumScores(SubSeq(d, 1, Len(d) - 1))

\* a slip: on a tie the last detection of maximal score
BestDetection_last(d) ==
    d[CHOOSE i \in DOMAIN d :
         /\ \A j \in DOMAIN d : d[j].score <= d[i].score
         /\ \A j \in (i + 1)..Len(d) : d[j].score < d[i].score]

\* max(detections, key=lambda x: x[1]): the first detection of maximal score
BestDetection(d) ==
    d[CHOOSE i \in DOMAIN d :
         /\ \A j \in DOMAIN d : d[j].score <= d[i].score
         /\ \A j \in 1..(i - 1) : d[j].score < d[i].score]

scene_totals_of(fs) ==
    [t \in Range(ClusterKeys(fs, 1, <<>>)) |-> SumScores(scene_cluster(fs, t))]

scene_max_of(fs) ==
    [t \in Range(ClusterKeys(fs, 1, <<>>)) |-> BestDetection(scene_cluster(fs, t)).score]

scene_best_time_of(fs) ==
    [t \in Range(ClusterKeys(fs, 1, <<>>)) |-> BestDetection(scene_cluster(fs, t)).time]

\* black_map: per second, the first black event of the largest duration
black_map_of(bl) ==
    [t \in {PyInt(bl[i].end_time) : i \in DOMAIN bl} |->
        LET d == SelectSeq(bl, LAMBDA b : PyInt(b.end_time) = t)
        IN  d[CHOOSE i \in DOMAIN d :
                 /\ \A j \in DOMAIN d : d[j].duration <= d[i].duration
                 /\ \A j \in 1..(i - 1) : d[j].duration < d[i].duration]]

\* audio_changes as a mapping second -> step
audio_map_of(ac) == [t \in {ac[i].time : i \in DOMAIN ac} |->
                        (CHOOSE a \in Range(ac) : a.time = t).step]

\* the loop over range(-window, window + 1) for black_map
best_black_duration(black_map, t) ==
    SetMax({0} \cup {black_map[u].duration :
                        u \in (t - window)..(t + window) \cap DOMAIN black_map})

\* the loop over range(-window, window + 1) for audio_changes
best_audio_step(audio_map, t) ==
    SetMax({0} \cup {audio_map[u] :
                        u \in (t - window)..(t + window) \cap DOMAIN audio_map})

\* a slip: the audio gate put on the cluster total
SceneCandidate_gate_on_total(fs, black_map, audio_map, t) ==
    LET d == scene_cluster(fs, t)
    IN  CutCandidate(BestDetection(d).time,
                     SumScores(d),
                     best_black_duration(black_map, t),
                     IF SumScores(d) >= AudioGate
                     THEN best_audio_step(audio_map, t) ELSE 0)

\* the candidate of the scene cluster of second t
SceneCandidate(fs, black_map, audio_map, t) ==
    LET d         == scene_cluster(fs, t)
        max_score == BestDetection(d).score
    IN  CutCandidate(BestDetection(d).time,
                     SumScores(d),
                     best_black_duration(black_map, t),
                     IF max_score >= AudioGate
                     THEN best_audio_step(audio_map, t) ELSE 0)

\* the floor put on the cluster total instead of the strongest detection
RECURSIVE SceneCandidates_by_total(_, _, _, _, _)
SceneCandidates_by_total(fs, keys, i, black_map, audio_map) ==
    IF i > Len(keys) THEN <<>>
    ELSE (IF SumScores(scene_cluster(fs, keys[i])) < SceneFloor
          THEN <<>>
          ELSE <<SceneCandidate(fs, black_map, audio_map, keys[i])>>)
         \o SceneCandidates_by_total(fs, keys, i + 1, black_map, audio_map)

\* "for t in scene_totals": one candidate per cluster with a strong detection
RECURSIVE SceneCandidates(_, _, _, _, _)
SceneCandidates(fs, keys, i, black_map, audio_map) ==
    IF i > Len(keys) THEN <<>>
    ELSE (IF BestDetection(scene_cluster(fs, keys[i])).score < SceneFloor
          THEN <<>>
          ELSE <<SceneCandidate(fs, black_map, audio_map, keys[i])>>)
         \o SceneCandidates(fs, keys, i + 1, black_map, audio_map)

\* a slip: the audio step compared with > instead of >=
IsAudioOnly_strict(a, cluster_secs) == a.step > AudioOnlyMin /\ a.time \notin cluster_secs

\* a slip: the test "t not in scene_totals" left out
IsAudioOnly_any(a, cluster_secs) == a.step >= AudioOnlyMin

\* the guard of the audio-only loop
IsAudioOnly(a, cluster_secs) == a.step >= AudioOnlyMin /\ a.time \notin cluster_secs

\* a slip: the black frames of the neighbouring seconds credited as well
RECURSIVE AudioOnlyCandidates_window(_, _, _, _)
AudioOnlyCandidates_window(ac, i, cluster_secs, black_map) ==
    IF i > Len(ac) THEN <<>>
    ELSE (IF IsAudioOnly(ac[i], cluster_secs)
          THEN <<CutCandidate(ac[i].time * 10, 0,
                              best_black_duration(black_map, ac[i].time),
                              ac[i].step)>>
          ELSE <<>>)
         \o AudioOnlyCandidates_window(ac, i + 1, cluster_secs, black_map)

\* "for t, step in audio_changes.items()": audio-only candidates
RECURSIVE AudioOnlyCandidates(_, _, _, _)
AudioOnlyCandidates(ac, i, cluster_secs, black_map) ==
    IF i > Len(ac) THEN <<>>
    ELSE (IF IsAudioOnly(ac[i], cluster_secs)
          THEN <<CutCandidate(ac[i].time * 10, 0,
                              IF ac[i].time \in DOMAIN black_map
                              THEN black_map[ac[i].time].duration ELSE 0,
                              ac[i].step)>>
          ELSE <<>>)
         \o AudioOnlyCandidates(ac, i + 1, cluster_secs, black_map)

\* find_cuts: candidates, from the surviving scene events
build_candidates(fs, bl, ac) ==
    LET keys      == ClusterKeys(fs, 1, <<>>)
        black_map == black_map_of(bl)
    IN  SceneCandidates(fs, keys, 1, black_map, audio_map_of(ac))
          \o AudioOnlyCandidates(ac, 1, Range(keys), black_map)

-----------------------------------------------------------------------------
(* detection.py: find_cuts, greedy selection *)

\* a slip: the sort key without its minus sign (lowest confidence first)
SortByConfidence_ascending(cs) ==
    LET keyed == [i \in DOMAIN cs |-> [k |-> confidence_score(cs[i]), v |-> cs[i]]]
        srt   == StableSort(keyed)
    IN  [i \in DOMAIN srt |-> srt[i].v]

\* sorted(candidates, key=lambda c: -c.confidence_score)
SortByConfidence(cs) ==
    LET keyed == [i \in DOMAIN cs |-> [k |-> -confidence_score(cs[i]), v |-> cs[i]]]
        srt   == StableSort(keyed)
    IN  [i \in DOMAIN srt |-> srt[i].v]

\* sorted(selected, key=lambda c: c.time)
SortByTime(cs) ==
    LET keyed == [i \in DOMAIN cs |-> [k |-> cs[i].time, v |-> cs[i]]]
        srt   == StableSort(keyed)
    IN  [i \in DOMAIN srt |-> srt[i].v]

\* a slip: the gap measured between the integer seconds of the two times
too_close_by_second(c, selected, mg) ==
    \E j \in DOMAIN selected :
        Abs(PyInt(c.time) - PyInt(selected[j].time)) * 10 < mg

\* the inner loop over selected
too_close(c, selected, mg) ==
    \E j \in DOMAIN selected : Abs(c.time - selected[j].time) < mg

\* a slip: the confidence floor left out
Accepts_no_floor(c, selected, mc, mg) == ~too_close(c, selected, mg)

\* the body of "for candidate in sorted_candidates"
Accepts(c, selected, mc, mg) ==
    /\ ~(confidence_score(c) < mc)
    /\ ~too_close(c, selected, mg)

RECURSIVE GreedySelect(_, _, _, _, _)
GreedySelect(sorted_candidates, i, selected, mc, mg) ==
    IF i > Len(sorted_candidates) THEN selected
    ELSE GreedySelect(sorted_candidates, i + 1,
                      IF Accepts(sorted_candidates[i], selected, mc, mg)
                      THEN Append(selected, sorted_candidates[i])
                      ELSE selected,
                      mc, mg)

select_cuts(cs, mc, mg) ==
    SortByTime(GreedySelect(SortByConfidence(cs), 1, <<>>, mc, mg))

-----------------------------------------------------------------------------
(* detection.py: find_cuts as a whole (return_all=True) *)

find_cuts(sc, bl, ac, mc, mg) ==
    LET zones           == detect_noise_zones(sc)
        filtered_scenes == suppress_noise_detections(sc, zones)
        candidates      == build_candidates(filtered_scenes, bl, ac)
    IN  [result      |-> select_cuts(candidates, mc, mg),
         candidates  |-> candidates,
         scene_max   |-> scene_max_of(filtered_scenes),
         noise_zones |-> zones]

-----------------------------------------------------------------------------
(* detection.py: the checks of verify_candidates *)

HasBlackMin == 2         \* has_black = c.black_duration >= 0.2
HasAudioMin == 50        \* has_audio = c.audio_step >= 5
NoiseMargin == 10        \* is_near_noise_zone margin, seconds
BorderlineMax == 100     \* "if max_score < 10"
threshold == 700         \* verify_candidates threshold = 0.7
FlashThreshold == 955    \* check_scene_stability threshold = 0.955
FlashFloor == 850        \* "min(sim_short, sim_long) >= 0.85"

\* a slip: > for >=
has_black_strict(c) == c.black_duration > HasBlackMin

has_black(c) == c.black_duration >= HasBlackMin

has_audio(c) == c.audio_step >= HasAudioMin

is_near_noise_zone(t, zones) ==
    IF zones = <<>> THEN FALSE
    ELSE \E j \in DOMAIN zones :
            /\ zones[j].start - NoiseMargin * 10 <= t
            /\ t <= zones[j].end + NoiseMargin * 10

\* a slip: the total of the second's scene scores for their maximum
max_score_of_total(smax, c) == c.scene_score

\* scene_max_scores.get(int(c.time), 0)
max_score_of(smax, c) ==
    IF PyInt(c.time) \in DOMAIN smax THEN smax[PyInt(c.time)] ELSE 0

\* a slip: <= for <
is_valid_inclusive(similarity) == similarity <= threshold

\* verify_scene_change: is_valid, given the similarity the comparison returned
is_valid(similarity) == similarity < threshold

\* the docstring's reading: a flash only if both intervals are very high
is_flash_both(sim_short, sim_long) ==
    sim_short >= FlashThreshold /\ sim_long >= FlashThreshold

\* check_scene_stability: is_flash, given the two similarities
is_flash(sim_short, sim_long) ==
    /\ (sim_short >= FlashThreshold \/ sim_long >= FlashThreshold)
    /\ (IF sim_short <= sim_long THEN sim_short ELSE sim_long) >= FlashFloor

\* what extracting and comparing one pair of frames comes to: the pair is
\* read and correlates at corr, a frame is missing or unreadable, or ffmpeg /
\* OpenCV raises
FrameRead(status, corr) == [status |-> status, corr |-> corr]

FrameReads(Sims) ==
    {FrameRead("ok", s) : s \in Sims}
        \cup {FrameRead("missing", 0), FrameRead("raise", 0)}

\* verify_scene_change: (is_valid, similarity) of a pair that did not raise
verify_scene_change(read) ==
    IF read.status = "missing"
    THEN [is_valid |-> TRUE, similarity |-> 0]
    ELSE [is_valid |-> is_valid(read.corr), similarity |-> read.corr]

\* check_scene_stability.compare_frames of a pair that did not raise
compare_frames(read) ==
    IF read.status = "missing" THEN 0 ELSE read.corr

\* check_scene_stability: (is_flash, sim_short, sim_long)
check_scene_stability(read_short, read_long) ==
    LET sim_short == compare_frames(read_short)
        sim_long  == compare_frames(read_long)
    IN  [is_flash |-> is_flash(sim_short, sim_long),
         sim_short |-> sim_short, sim_long |-> sim_long]

-----------------------------------------------------------------------------
(* cli.py: run_detection_with_logging, the label of a candidate in the log *)

\* lines 143-149, with cuts = result.cuts, the verified list
selected_label(c, result_cuts, mc) ==
    IF c \in Range(result_cuts) THEN "SELECTED"
    ELSE IF confidence_score(c) < mc THEN "skip (below)"
    ELSE "skip (too close)"

-----------------------------------------------------------------------------
(* Inputs of the detection run *)

MaxScenes == 2           \* scene events besides the noise burst
MaxBlacks == 1           \* black events
MaxAudio == 1            \* audio steps

FreeTimes == {218, 222, 271, 600}
FreeScores == {85, 125}
BlackTimes == {215}
BlackDurations == {1, 2}
AudioSeconds == {22, 60}
AudioSteps == {60, 200}
MinConfidences == {8, 12}
MinGaps == {0, 10}
HistSims == {0, 700, 850}   \* similarities verify_scene_change may read
StabSims == {0, 850, 955}   \* similarities check_scene_stability may read

\* the ascending sequence of a finite set of integers
RECURSIVE Ascending(_)
Ascending(A) ==
    IF A = {} THEN <<>>
    ELSE LET m == SetMin(A) IN <<m>> \o Ascending(A \ {m})

\* every chronological list of at most n events at distinct times
EventLists(Times, Values, n) ==
    UNION {{[i \in DOMAIN Ascending(T) |-> <<Ascending(T)[i], f[Ascending(T)[i]]>>] :
              f \in [T -> Values]} :
           T \in {U \in SUBSET Times : Cardinality(U) <= n}}

\* VHS noise: three weak scene events in every second of 20..34
NoiseBurst ==
    [i \in 1..45 |-> [time |-> 200 + ((i - 1) \div 3) * 10 + ((i - 1) % 3) * 3,
                      score |-> 30]]

Bursts == {<<>>, NoiseBurst}

\* the burst and the free events, in chronological order as scdet reports them
Chronological(a, b) ==
    LET all   == a \o b
        keyed == [i \in DOMAIN all |-> [k |-> all[i].time, v |-> all[i]]]
        srt   == StableSort(keyed)
    IN  [i \in DOMAIN srt |-> srt[i].v]

SceneInputs ==
    {Chronological(burst, [i \in DOMAIN l |-> [time |-> l[i][1], score |-> l[i][2]]]) :
        burst \in Bursts, l \in EventLists(FreeTimes, FreeScores, MaxScenes)}

BlackInputs ==
    {[i \in DOMAIN l |-> [end_time |-> l[i][1], duration |-> l[i][2]]] :
        l \in EventLists(BlackTimes, BlackDurations, MaxBlacks)}

AudioInputs ==
    {[i \in DOMAIN l |-> [time |-> l[i][1], step |-> l[i][2]]] :
        l \in EventLists(AudioSeconds, AudioSteps, MaxAudio)}

NoVerdict ==
    [time |-> -1, check |-> "none", hist |-> -1, sim_short |-> -1,
     sim_long |-> -1, verdict |-> "none", missing |-> {}]

Verdict(c, check, hist, sim_short, sim_long, verdict) ==
    [time |-> c.time, check |-> check, hist |-> hist, sim_short |-> sim_short,
     sim_long |-> sim_long, verdict |-> verdict, missing |-> {}]

\* the frame pairs of a check that could not be read
Missing(read_hist, read_short, read_long) ==
    {n \in {"hist", "short", "long"} :
        \/ n = "hist" /\ read_hist.status = "missing"
        \/ n = "short" /\ read_short.status = "missing"
        \/ n = "long" /\ read_long.status = "missing"}

NoRead == FrameRead("none", 0)

Unused == <<>>

\* the variables of a run that is not the one being specified
PipelineIdle ==
    /\ scenes = Unused /\ blacks = Unused /\ audio_changes = Unused
    /\ min_confidence = 0 /\ min_gap = 0
    /\ noise_zones = Unused /\ all_candidates = Unused /\ scene_max = Unused
    /\ cuts = Unused /\ idx = 0 /\ verified = Unused /\ outcome = Unused
    /\ calls = Unused /\ last = NoVerdict /\ raw_zones = Unused
    /\ boundaries = Unused /\ output_files = Unused

ScoreIdle == cand = Unused /\ conf = Unused

SuppressIdle == S = Unused /\ Z = Unused /\ once = Unused /\ twice = Unused

-----------------------------------------------------------------------------
(* detect_cuts: find_cuts, then verify_candidates candidate by candidate *)

Init ==
    /\ scenes \in SceneInputs
    /\ blacks \in BlackInputs
    /\ audio_changes \in AudioInputs
    /\ min_confidence \in MinConfidences
    /\ min_gap \in MinGaps
    /\ pc = "find"
    /\ noise_zones = <<>>
    /\ all_candidates = <<>>
    /\ scene_max = <<>>
    /\ cuts = <<>>
    /\ idx = 0
    /\ verified = <<>>
    /\ outcome = <<>>
    /\ calls = <<>>
    /\ last = NoVerdict
    /\ raw_zones = <<>>
    /\ boundaries = <<>>
    /\ output_files = <<>>
    /\ ScoreIdle
    /\ SuppressIdle

inputVars == <<scenes, blacks, audio_changes, min_confidence, min_gap>>
foundVars == <<noise_zones, all_candidates, scene_max, cuts>>
otherVars == <<cand, conf, S, Z, once, twice, raw_zones, boundaries, output_files>>

\* detect_cuts lines 751-758
FindCuts ==
    /\ pc = "find"
    /\ LET r == find_cuts(scenes, blacks, audio_changes, min_confidence, min_gap)
       IN  /\ cuts' = r.result
           /\ all_candidates' = r.candidates
           /\ scene_max' = r.scene_max
           /\ noise_zones' = r.noise_zones
    /\ pc' = "loop"
    /\ idx' = 1
    /\ UNCHANGED <<inputVars, verified, outcome, calls, last, otherVars>>

\* CheckAfter with the borderline histogram check ahead of the audio branch
CheckAfter_borderline_first(c, after) ==
    IF after = "start" /\ has_black(c) THEN "black"
    ELSE IF after = "start" /\ is_near_noise_zone(c.time, noise_zones) THEN "noise"
    ELSE IF after \in {"start", "noise"}
            /\ max_score_of(scene_max, c) < BorderlineMax THEN "borderline"
    ELSE IF after \in {"start", "noise", "borderline"} /\ has_audio(c) THEN "audio"
    ELSE "flash"

\* the check of the loop body that candidate c meets first after position
\* `after` ("start": line 416, "noise": line 431, "borderline": line 452)
CheckAfter(c, after) ==
    IF after = "start" /\ has_black(c) THEN "black"
    ELSE IF after = "start" /\ is_near_noise_zone(c.time, noise_zones) THEN "noise"
    ELSE IF after \in {"start", "noise"} /\ has_audio(c) THEN "audio"
    ELSE IF after \in {"start", "noise"}
            /\ max_score_of(scene_max, c) < BorderlineMax THEN "borderline"
    ELSE "flash"

\* candidate cuts[idx] is at check `check`
At(check) ==
    /\ pc \in {"loop", "audio", "borderline", "flash"}
    /\ idx \in DOMAIN cuts
    /\ check = (IF pc = "loop" THEN CheckAfter(cuts[idx], "start") ELSE pc)

\* a slip: a candidate is kept only while nothing has been kept before it
Pass_only_first(c, v) ==
    /\ verified' = (IF verified = <<>> THEN Append(verified, c) ELSE verified)
    /\ outcome' = Append(outcome, IF verified = <<>> THEN "PASS" ELSE "FAIL")
    /\ last' = v
    /\ idx' = idx + 1
    /\ pc' = "loop"

\* the candidate is kept: verified.append(c); continue
Pass(c, v) ==
    /\ verified' = Append(verified, c)
    /\ outcome' = Append(outcome, "PASS")
    /\ last' = v
    /\ idx' = idx + 1
    /\ pc' = "loop"

\* the candidate is dropped, but without the continue: it falls through to
\* the append at the end of the loop body
Fail_appends(v) ==
    /\ verified' = Append(verified, cuts[idx])
    /\ outcome' = Append(outcome, "FAIL")
    /\ last' = v
    /\ idx' = idx + 1
    /\ pc' = "loop"

\* the candidate is dropped: continue
Fail(v) ==
    /\ verified' = verified
    /\ outcome' = Append(outcome, "FAIL")
    /\ last' = v
    /\ idx' = idx + 1
    /\ pc' = "loop"

\* the candidate goes on to its next check
Continue(v, next) ==
    /\ last' = v
    /\ pc' = next
    /\ UNCHANGED <<verified, outcome, idx>>

\* a comparison raised: nothing in verify_candidates, detect_cuts or their
\* caller catches it, so the run ends without a list
Raise(c) ==
    /\ last' = Verdict(c, "raise", -1, -1, -1, "RAISE")
    /\ pc' = "raised"
    /\ UNCHANGED <<verified, outcome, idx>>

HistCall(c) == [time |-> c.time, check |-> "hist"]
StabCalls(c, read_short) ==
    IF read_short.status = "raise"
    THEN <<[time |-> c.time, check |-> "stab_short"]>>
    ELSE <<[time |-> c.time, check |-> "stab_short"],
           [time |-> c.time, check |-> "stab_long"]>>

\* lines 416-420: black frame, skip all checks
BlackBypass ==
    /\ At("black")
    /\ Pass(cuts[idx], Verdict(cuts[idx], "black", -1, -1, -1, "PASS"))
    /\ UNCHANGED <<inputVars, foundVars, calls, otherVars>>

\* lines 422-429: near a noise zone, histogram verification
NoiseScrutiny ==
    /\ At("noise")
    /\ \E read \in FrameReads(HistSims) :
          LET c == cuts[idx]
              r == verify_scene_change(read)
              v == [Verdict(c, "noise", r.similarity, -1, -1, "FAIL")
                      EXCEPT !.missing = Missing(read, NoRead, NoRead)]
          IN  /\ calls' = Append(calls, HistCall(c))
              /\ IF read.status = "raise" THEN Raise(c)
                 ELSE IF ~r.is_valid THEN Fail(v)
                 ELSE Continue([v EXCEPT !.verdict = "CONTINUE"],
                               CheckAfter(c, "noise"))
    /\ UNCHANGED <<inputVars, foundVars, otherVars>>

\* lines 431-441: audio corroboration, flash check only
AudioCorroboration ==
    /\ At("audio")
    /\ \E read_short \in FrameReads(StabSims), read_long \in FrameReads(StabSims) :
          LET c == cuts[idx]
              r == check_scene_stability(read_short, read_long)
              v == [Verdict(c, "audio", -1, r.sim_short, r.sim_long, "FAIL")
                      EXCEPT !.missing = Missing(NoRead, read_short, read_long)]
          IN  /\ calls' = calls \o StabCalls(c, read_short)
              /\ IF "raise" \in {read_short.status, read_long.status} THEN Raise(c)
                 ELSE IF r.is_flash THEN Fail(v)
                 ELSE Pass(c, [v EXCEPT !.verdict = "PASS"])
    /\ UNCHANGED <<inputVars, foundVars, otherVars>>

\* lines 443-450: borderline scene-only detection, histogram check
BorderlineCheck ==
    /\ At("borderline")
    /\ \E read \in FrameReads(HistSims) :
          LET c == cuts[idx]
              r == verify_scene_change(read)
              v == [Verdict(c, "borderline", r.similarity, -1, -1, "FAIL")
                      EXCEPT !.missing = Missing(read, NoRead, NoRead)]
          IN  /\ calls' = Append(calls, HistCall(c))
              /\ IF read.status = "raise" THEN Raise(c)
                 ELSE IF ~r.is_valid THEN Fail(v)
                 ELSE Continue([v EXCEPT !.verdict = "CONTINUE"],
                               CheckAfter(c, "borderline"))
    /\ UNCHANGED <<inputVars, foundVars, otherVars>>

\* lines 452-463: flash detection for scene-only candidates
FlashCheck ==
    /\ At("flash")
    /\ \E read_short \in FrameReads(StabSims), read_long \in FrameReads(StabSims) :
          LET c == cuts[idx]
              r == check_scene_stability(read_short, read_long)
              v == [Verdict(c, "flash", -1, r.sim_short, r.sim_long, "FAIL")
                      EXCEPT !.missing = Missing(NoRead, read_short, read_long)]
          IN  /\ calls' = calls \o StabCalls(c, read_short)
              /\ IF "raise" \in {read_short.status, read_long.status} THEN Raise(c)
                 ELSE IF r.is_flash THEN Fail(v)
                 ELSE Pass(c, [v EXCEPT !.verdict = "PASS"])
    /\ UNCHANGED <<inputVars, foundVars, otherVars>>

\* lines 465-467: the loop is over, return verified (the locals are gone)
ReturnVerified ==
    /\ pc = "loop"
    /\ idx > Len(cuts)
    /\ pc' = "done"
    /\ last' = NoVerdict
    /\ UNCHANGED <<inputVars, foundVars, idx, verified, outcome, calls, otherVars>>

Next ==
    \/ FindCuts
    \/ BlackBypass
    \/ NoiseScrutiny
    \/ AudioCorroboration
    \/ BorderlineCheck
    \/ FlashCheck
    \/ ReturnVerified

Spec == Init /\ [][Next]_vars

-----------------------------------------------------------------------------
(* verify_candidates on the cut lists of the most permissive selection *)

VerifyInit == Init /\ min_confidence = 8 /\ min_gap = 0

VerifySpec == VerifyInit /\ [][Next]_vars

-----------------------------------------------------------------------------
(* CutCandidate.confidence_score on its own *)

SceneScoreInputs == {-5, 0, 59, 60, 250, 405, 1200}
BlackDurationInputs == {0, 1, 2, 5, 10}
AudioStepInputs == {0, 49, 50, 120, 250}

\* what a caller reads off candidate c; raised and prev record how c was obtained
Scored(c, raised, prev) ==
    [score  |-> confidence_score(c),
     parts  |-> score_breakdown(c),
     raised |-> raised,
     prev   |-> prev]

ScoreInit ==
    /\ cand \in {CutCandidate(100, s, b, a) :
                    s \in SceneScoreInputs, b \in BlackDurationInputs, a \in AudioStepInputs}
    /\ conf = Unused
    /\ pc = "score"
    /\ PipelineIdle
    /\ SuppressIdle

\* models.py lines 94-115: read confidence_score and score_breakdown
ComputeScore ==
    /\ pc = "score"
    /\ conf' = Scored(cand, "none", 0)
    /\ pc' = "scored"
    /\ UNCHANGED <<cand, pipelineVars, suppressVars>>

\* a candidate equal to cand but for a larger scene_score
RaiseSceneScore ==
    /\ pc = "scored"
    /\ \E s \in SceneScoreInputs :
          /\ s > cand.scene_score
          /\ cand' = [cand EXCEPT !.scene_score = s]
          /\ conf' = Scored(cand', "scene", conf.score)
    /\ UNCHANGED <<pc, pipelineVars, suppressVars>>

\* a candidate equal to cand but for a larger black_duration
RaiseBlackDuration ==
    /\ pc = "scored"
    /\ \E b \in BlackDurationInputs :
          /\ b > cand.black_duration
          /\ cand' = [cand EXCEPT !.black_duration = b]
          /\ conf' = Scored(cand', "black", conf.score)
    /\ UNCHANGED <<pc, pipelineVars, suppressVars>>

\* a candidate equal to cand but for a larger audio_step
RaiseAudioStep ==
    /\ pc = "scored"
    /\ \E a \in AudioStepInputs :
          /\ a > cand.audio_step
          /\ cand' = [cand EXCEPT !.audio_step = a]
          /\ conf' = Scored(cand', "audio", conf.score)
    /\ UNCHANGED <<pc, pipelineVars, suppressVars>>

ScoreNext ==
    \/ ComputeScore
    \/ RaiseSceneScore
    \/ RaiseBlackDuration
    \/ RaiseAudioStep

ScoreSpec == ScoreInit /\ [][ScoreNext]_vars

-----------------------------------------------------------------------------
(* suppress_noise_detections on its own, over arbitrary scene and zone lists *)

MaxSuppressed == 3       \* length of the scene list

SuppressEvents ==
    {[time |-> t, score |-> 90] : t \in {50, 51, 100, 149, 150, 345}}

RECURSIVE SeqsUpTo(_, _)
SeqsUpTo(A, n) ==
    IF n = 0 THEN {<<>>}
    ELSE LET shorter == SeqsUpTo(A, n - 1)
         IN  shorter \cup {Append(q, x) : q \in {r \in shorter : Len(r) = n - 1}, x \in A}

ZoneInputs ==
    {<<>>,
     <<NoiseZone(0, 200, 60)>>,
     <<NoiseZone(0, 100, 30), NoiseZone(300, 400, 30)>>,
     <<NoiseZone(0, 140, 40), NoiseZone(200, 390, 50)>>}

SuppressInit ==
    /\ S \in SeqsUpTo(SuppressEvents, MaxSuppressed)
    /\ Z \in ZoneInputs
    /\ once = Unused
    /\ twice = Unused
    /\ pc = "suppress"
    /\ PipelineIdle
    /\ ScoreIdle

\* find_cuts line 625, on S and Z
SuppressOnce ==
    /\ pc = "suppress"
    /\ once' = suppress_noise_detections(S, Z)
    /\ pc' = "suppressed"
    /\ UNCHANGED <<S, Z, twice, pipelineVars, scoreVars>>

\* the suppressor run again on its own output
SuppressTwice ==
    /\ pc = "suppressed"
    /\ twice' = suppress_noise_detections(once, Z)
    /\ pc' = "suppressed_twice"
    /\ UNCHANGED <<S, Z, once, pipelineVars, scoreVars>>

SuppressNext ==
    \/ SuppressOnce
    \/ SuppressTwice

SuppressSpec == SuppressInit /\ [][SuppressNext]_vars

-----------------------------------------------------------------------------
(* detect_noise_zones and the candidate builder on bursts of scene events *)

MaxBursts == 2           \* bursts of scene events in one input

BurstSeconds == {0, 14, 23, 24, 25, 40}

\* a busy single second, twelve seconds of steady noise, a lone strong event
BurstShapes ==
    {[len |-> 1, rate |-> 25, score |-> 30],
     [len |-> 12, rate |-> 3, score |-> 30],
     [len |-> 1, rate |-> 1, score |-> 90]}

Burst(at, shape) ==
    [at |-> at, len |-> shape.len, rate |-> shape.rate, score |-> shape.score]

\* the bursts of B in a fixed order
RECURSIVE Ranked(_)
Ranked(B) ==
    IF B = {} THEN <<>>
    ELSE LET b == CHOOSE x \in B :
                     \A y \in B : x.at * 1000 + x.len * 30 + x.rate
                                    <= y.at * 1000 + y.len * 30 + y.rate
         IN  <<b>> \o Ranked(B \ {b})

\* the events of second s: rate events of each burst bs[i], bs[i+1], ... that
\* covers s, those of the r-th such burst r tenths into the second
RECURSIVE SecondEvents(_, _, _, _)
SecondEvents(bs, i, s, r) ==
    IF i > Len(bs) THEN <<>>
    ELSE IF bs[i].at <= s /\ s < bs[i].at + bs[i].len
         THEN [k \in 1..bs[i].rate |-> [time |-> s * 10 + r, score |-> bs[i].score]]
                  \o SecondEvents(bs, i + 1, s, r + 1)
         ELSE SecondEvents(bs, i + 1, s, r)

RECURSIVE EventsFrom(_, _, _)
EventsFrom(bs, s, end) ==
    IF s > end THEN <<>>
    ELSE SecondEvents(bs, 1, s, 0) \o EventsFrom(bs, s + 1, end)

\* the events of a set of bursts, in chronological order
EventsOf(B) ==
    IF B = {} THEN <<>>
    ELSE EventsFrom(Ranked(B), SetMin({b.at : b \in B}),
                    SetMax({b.at + b.len - 1 : b \in B}))

\* the sets of at most n elements of X
RECURSIVE SetsUpTo(_, _)
SetsUpTo(X, n) ==
    IF n = 0 THEN {{}}
    ELSE LET P == SetsUpTo(X, n - 1) IN P \cup {p \cup {x} : p \in P, x \in X}

\* n events of score 3.0 spread evenly from second 100 over 30 seconds, the
\* last one 30 * (n - 1) / steps seconds after the first
SpreadEvenly(n, steps) ==
    [i \in 1..n |-> [time |-> 1000 + ((i - 1) * 300) \div steps, score |-> 30]]

ZoneSceneInputs ==
    {EventsOf(B) :
        B \in SetsUpTo({Burst(at, sh) : at \in BurstSeconds, sh \in BurstShapes},
                       MaxBursts)}
      \cup {SpreadEvenly(200, 200), SpreadEvenly(200, 199)}

ZoneInit ==
    /\ scenes \in ZoneSceneInputs
    /\ blacks = <<>>
    /\ audio_changes = <<>>
    /\ min_confidence = 12
    /\ min_gap = 10
    /\ pc = "zones"
    /\ noise_zones = <<>>
    /\ raw_zones = <<>>
    /\ boundaries = <<>>
    /\ output_files = <<>>
    /\ all_candidates = <<>>
    /\ scene_max = <<>>
    /\ cuts = <<>>
    /\ idx = 0
    /\ verified = <<>>
    /\ outcome = <<>>
    /\ calls = <<>>
    /\ last = NoVerdict
    /\ ScoreIdle
    /\ SuppressIdle

\* find_cuts line 622: noise_zones = detect_noise_zones(scenes)
DetectNoiseZones ==
    /\ pc = "zones"
    /\ raw_zones' = zones_before_merge(scenes)
    /\ noise_zones' = detect_noise_zones(scenes)
    /\ pc' = "zoned"
    /\ UNCHANGED <<inputVars, all_candidates, scene_max, cuts, idx, verified,
                   outcome, calls, last, scoreVars, suppressVars,
                   boundaries, output_files>>

\* find_cuts lines 625-697: suppress, then build the candidates
BuildCandidates ==
    /\ pc = "zoned"
    /\ LET filtered_scenes == suppress_noise_detections(scenes, noise_zones)
       IN  /\ all_candidates' = build_candidates(filtered_scenes, blacks, audio_changes)
           /\ scene_max' = scene_max_of(filtered_scenes)
    /\ pc' = "built"
    /\ UNCHANGED <<inputVars, noise_zones, cuts, idx, verified,
                   outcome, calls, last, otherVars>>

ZoneNext ==
    \/ DetectNoiseZones
    \/ BuildCandidates

ZoneSpec == ZoneInit /\ [][ZoneNext]_vars

-----------------------------------------------------------------------------
(* find_cuts on clusters of scene events with black and audio signals *)

ClusterTimes == {50, 53, 300, 303}
ClusterScores == {60, 85, 125}
BlackEnds == {285, 305}
StepSeconds == {6, 28, 30}
StepSizes == {149, 150}

\* VHS noise: three scene events of score 5.0 in every second of 0..11
EdgeBurst ==
    [i \in 1..36 |-> [time |-> ((i - 1) \div 3) * 10 + 2 + ((i - 1) % 3) * 3,
                      score |-> 50]]

ClusterInputs ==
    {Chronological(burst, [i \in DOMAIN l |-> [time |-> l[i][1], score |-> l[i][2]]]) :
        burst \in {<<>>, EdgeBurst}, l \in EventLists(ClusterTimes, ClusterScores, MaxScenes)}

CandidateInit ==
    /\ scenes \in ClusterInputs
    /\ blacks \in {[i \in DOMAIN l |-> [end_time |-> l[i][1], duration |-> l[i][2]]] :
                      l \in EventLists(BlackEnds, BlackDurations, MaxBlacks)}
    /\ audio_changes \in {[i \in DOMAIN l |-> [time |-> l[i][1], step |-> l[i][2]]] :
                             l \in EventLists(StepSeconds, StepSizes, MaxAudio)}
    /\ min_confidence = 12
    /\ min_gap = 10
    /\ pc = "zones"
    /\ noise_zones = <<>>
    /\ raw_zones = <<>>
    /\ boundaries = <<>>
    /\ output_files = <<>>
    /\ all_candidates = <<>>
    /\ scene_max = <<>>
    /\ cuts = <<>>
    /\ idx = 0
    /\ verified = <<>>
    /\ outcome = <<>>
    /\ calls = <<>>
    /\ last = NoVerdict
    /\ ScoreIdle
    /\ SuppressIdle

\* find_cuts lines 699-716: sort by confidence, select greedily, sort by time
SelectCuts ==
    /\ pc = "built"
    /\ cuts' = select_cuts(all_candidates, min_confidence, min_gap)
    /\ pc' = "selected"
    /\ UNCHANGED <<inputVars, noise_zones, all_candidates, scene_max, idx, verified,
                   outcome, calls, last, otherVars>>

CandidateNext ==
    \/ DetectNoiseZones
    \/ BuildCandidates
    \/ SelectCuts

CandidateSpec == CandidateInit /\ [][CandidateNext]_vars

-----------------------------------------------------------------------------
(* splitting.py: split_video, with format_time_filename of utils.py *)

\* format_time_filename: the fields of f"{hours:02d}h{minutes:02d}m{secs:02d}s"
format_time_filename(seconds) ==
    [hours   |-> seconds \div 36000,
     minutes |-> (seconds % 36000) \div 600,
     secs    |-> (seconds % 600) \div 10]

\* output_dir / f"{stem}_{time_stamp}.mp4", for the one stem of a run
output_path(start) == [stem |-> "video", time_stamp |-> format_time_filename(start)]

MaxCuts == 3             \* verified cuts handed to split_video

SplitTimes == {5, 12, 15, 25, 600, 36000}
Durations == {36100}

\* the time-ordered cut lists with every two cuts at least mg apart
CutLists(mg) ==
    {[i \in DOMAIN Ascending(T) |-> CutCandidate(Ascending(T)[i], 125, 0, 0)] :
        T \in {U \in SUBSET SplitTimes :
                  /\ U # {}
                  /\ Cardinality(U) <= MaxCuts
                  /\ \A a, b \in U : a # b => Abs(a - b) >= mg}}

SplitInit ==
    /\ min_gap \in {10, 20}
    /\ min_confidence = 12
    /\ cuts \in CutLists(min_gap)
    /\ verified = cuts
    /\ boundaries = <<>>
    /\ output_files = <<>>
    /\ pc = "split"
    /\ idx = 0
    /\ scenes = Unused /\ blacks = Unused /\ audio_changes = Unused
    /\ noise_zones = Unused /\ all_candidates = Unused /\ scene_max = Unused
    /\ outcome = Unused /\ calls = Unused /\ last = NoVerdict /\ raw_zones = Unused
    /\ ScoreIdle
    /\ SuppressIdle

splitIdle == <<scenes, blacks, audio_changes, min_confidence, min_gap, noise_zones,
               all_candidates, scene_max, cuts, verified, outcome, calls, last,
               cand, conf, S, Z, once, twice, raw_zones>>

\* lines 18-22: boundaries = [0.0] + [c.time for c in cuts] + [duration]
OpenSplit ==
    /\ pc = "split"
    /\ \E duration \in Durations :
          boundaries' = <<0>> \o [i \in DOMAIN cuts |-> cuts[i].time] \o <<duration>>
    /\ output_files' = <<>>
    /\ idx' = 0
    /\ pc' = "segment"
    /\ UNCHANGED splitIdle

\* lines 24-61: one iteration of "for i in range(len(boundaries) - 1)"; the
\* path is appended before ffmpeg runs, and run_ffmpeg(cmd, check=True) raises
\* when ffmpeg fails
WriteSegment ==
    /\ pc = "segment"
    /\ idx < Len(boundaries) - 1
    /\ output_files' = Append(output_files, output_path(boundaries[idx + 1]))
    /\ \E returncode \in {0, 1} :
          IF returncode # 0
          THEN pc' = "split_failed" /\ idx' = idx
          ELSE pc' = "segment" /\ idx' = idx + 1
    /\ UNCHANGED <<boundaries, splitIdle>>

\* line 63: return output_files
ReturnFiles ==
    /\ pc = "segment"
    /\ idx = Len(boundaries) - 1
    /\ pc' = "split_done"
    /\ UNCHANGED <<idx, boundaries, output_files, splitIdle>>

SplitNext ==
    \/ OpenSplit
    \/ WriteSegment
    \/ ReturnFiles

SplitSpec == SplitInit /\ [][SplitNext]_vars

-----------------------------------------------------------------------------
(* Properties *)

Found == pc \in {"loop", "audio", "borderline", "flash", "done", "raised"}

\* the confidence the source computes for c, written out
Points(c) ==
    PyInt(c.scene_score)
      + (IF c.black_duration >= 2 THEN 10 ELSE 0)
      + (IF c.audio_step >= 50 THEN 10 ELSE 0)

\* candidate c was built but not selected although it meets the floor
RejectedAboveFloor(c) ==
    /\ c \in Range(all_candidates)
    /\ c \notin Range(cuts)
    /\ Points(c) >= min_confidence

\* C1. Gap invariant: any two distinct candidates of the list find_cuts
\* selects have times at least min_gap apart.
C1_GapInvariant ==
    Found => \A i \in DOMAIN cuts, j \in DOMAIN cuts :
                i # j => Abs(cuts[i].time - cuts[j].time) >= min_gap

\* C1 witness: two cuts were selected under a positive min_gap while a third
\* candidate that met the floor was left out.
C1_Witness ==
    /\ Found
    /\ min_gap > 0
    /\ Len(cuts) >= 2
    /\ \E c \in Range(all_candidates) : RejectedAboveFloor(c)

\* C2. Confidence floor: every candidate of the list find_cuts selects has
\* confidence_score >= min_confidence.
C2_ConfidenceFloor ==
    Found => \A i \in DOMAIN cuts : Points(cuts[i]) >= min_confidence

\* C2 witness: a candidate was selected while another one, below the floor,
\* had been built.
C2_Witness ==
    /\ Found
    /\ cuts # <<>>
    /\ \E c \in Range(all_candidates) : Points(c) < min_confidence

\* C3. Chronological output: the verified cuts are strictly increasing in
\* time, for every min_gap, min_gap <= 0 included.
C3_Chronological ==
    Found => \A i \in DOMAIN verified, j \in DOMAIN verified :
                i < j => verified[i].time < verified[j].time

\* C3 witness: with min_gap = 0 the pipeline returned two verified cuts less
\* than one second apart.
C3_Witness ==
    /\ pc = "done"
    /\ min_gap <= 0
    /\ \E i \in DOMAIN verified, j \in DOMAIN verified :
          i < j /\ verified[j].time - verified[i].time < 10

\* C4. Monotonic scoring: raising one of scene_score, black_duration,
\* audio_step with the other two fixed never lowers confidence_score.
C4_MonotonicScoring ==
    (pc = "scored" /\ conf.raised # "none") => conf.score >= conf.prev

\* C4 witness: the black duration was raised across 0.2 s to 1.0 s and the
\* score went up.
C4_Witness ==
    /\ pc = "scored"
    /\ conf.raised = "black"
    /\ cand.black_duration = 10
    /\ conf.score > conf.prev

\* C5. Bounded per-signal scoring: the scene signal gives at most 40 points,
\* the black signal at most 35, the audio signal at most 30, and
\* confidence_score never exceeds 105.
C5_BoundedScoring ==
    pc = "scored" =>
        /\ conf.parts.scene_pts <= 40
        /\ conf.parts.black_pts <= 35
        /\ conf.parts.audio_pts <= 30
        /\ conf.score <= 105

\* C7. Noise suppression idempotence: suppressing the output of
\* suppress_noise_detections(S, Z) again with Z changes nothing.
C7_SuppressIdempotent ==
    pc = "suppressed_twice" => twice = once

\* C7 witness: the first run removed two events in a row and kept others.
C7_Witness ==
    /\ pc = "suppressed_twice"
    /\ once # <<>>
    /\ \E i \in 1..(Len(S) - 1) : in_noise(S[i], Z) /\ in_noise(S[i + 1], Z)

\* C8. Greedy priority: every candidate that meets the floor and is not
\* selected lies within min_gap of a selected candidate of at least its
\* confidence, whichever of the two is earlier in time.
C8_GreedyPriority ==
    Found => \A c \in Range(all_candidates) :
                RejectedAboveFloor(c) =>
                    \E k \in DOMAIN cuts :
                        /\ Abs(c.time - cuts[k].time) < min_gap
                        /\ Points(cuts[k]) >= Points(c)

\* C8 witness: a candidate was left out for a stronger one that is later in
\* time.
C8_Witness ==
    /\ Found
    /\ \E c \in Range(all_candidates), k \in DOMAIN cuts :
          /\ RejectedAboveFloor(c)
          /\ Abs(c.time - cuts[k].time) < min_gap
          /\ cuts[k].time > c.time
          /\ Points(cuts[k]) > Points(c)

NearZone(t) ==
    \E j \in DOMAIN noise_zones :
        noise_zones[j].start - 100 <= t /\ t <= noise_zones[j].end + 100

\* C9. Black-frame bypass: a candidate with black_duration >= 0.2 is always
\* kept and no frame comparison is issued for it, near a noise zone or not.
C9_BlackBypass ==
    Found => \A i \in DOMAIN outcome :
                cuts[i].black_duration >= 2 =>
                    /\ outcome[i] = "PASS"
                    /\ \A k \in DOMAIN calls : calls[k].time # cuts[i].time

\* C9 witness: a candidate with a black frame of exactly 0.2 s, lying near a
\* noise zone, was kept, and a comparison was issued for another candidate.
C9_Witness ==
    /\ Found
    /\ calls # <<>>
    /\ \E i \in DOMAIN outcome :
          /\ cuts[i].black_duration = 2
          /\ NearZone(cuts[i].time)
          /\ outcome[i] = "PASS"

\* the candidates verify_candidates has taken up so far
TakenUp == {i \in DOMAIN cuts : i < idx \/ (i = idx /\ pc # "loop")}

\* C10 as amended. Noise-zone scrutiny: a candidate without black bypass
\* within the 10 s margin of a noise zone gets a histogram check; it FAILs
\* if the similarity is at or above 0.7 and otherwise continues.
C10_NoiseScrutiny ==
    Found =>
        /\ \A i \in TakenUp :
              (cuts[i].black_duration < 2 /\ NearZone(cuts[i].time)) =>
                  \E k \in DOMAIN calls :
                      calls[k].time = cuts[i].time /\ calls[k].check = "hist"
        /\ last.check = "noise" =>
              /\ last.hist >= 700 =>
                    /\ last.verdict = "FAIL"
                    /\ pc = "loop" /\ outcome[idx - 1] = "FAIL"
                    /\ cuts[idx - 1].time = last.time
              /\ last.hist < 700 =>
                    /\ last.verdict = "CONTINUE"
                    /\ pc \in {"audio", "borderline", "flash"}
                    /\ cuts[idx].time = last.time

\* C10 witness: the histogram check of a near-noise candidate read exactly
\* 0.7 and the candidate was dropped.
C10_Witness ==
    /\ last.check = "noise"
    /\ last.hist = 700
    /\ NearZone(last.time)
    /\ outcome[idx - 1] = "FAIL"

\* C10 as stated: the near-noise candidate FAILs only if the similarity is
\* above 0.7; a similarity exactly equal to the threshold does not fail it.
C10_AsStated ==
    last.check = "noise" => (last.verdict = "FAIL" <=> last.hist > 700)

\* the candidate the last verdict is about
Judged == {i \in DOMAIN cuts : cuts[i].time = last.time}

\* the flash rule on the similarities of the last verdict, written out
LastIsFlash ==
    /\ (last.sim_short >= 955 \/ last.sim_long >= 955)
    /\ last.sim_short >= 850
    /\ last.sim_long >= 850

MaxScore(c) ==
    IF PyInt(c.time) \in DOMAIN scene_max THEN scene_max[PyInt(c.time)] ELSE 0

\* neither black (>= 0.2 s) nor audio (>= 5 dB) corroborates candidate c
SceneOnly(c) == c.black_duration < 2 /\ c.audio_step < 50

\* the histogram checks issued for the candidate at time t
HistCalls(t) ==
    Cardinality({k \in DOMAIN calls : calls[k].time = t /\ calls[k].check = "hist"})

RECURSIVE PassedUpTo(_)
PassedUpTo(n) ==
    IF n = 0 THEN <<>>
    ELSE IF outcome[n] = "PASS" THEN Append(PassedUpTo(n - 1), cuts[n])
    ELSE PassedUpTo(n - 1)

\* the checks issued for the candidate at time t, in the order issued
RECURSIVE ChecksOf(_, _)
ChecksOf(t, n) ==
    IF n = 0 THEN <<>>
    ELSE IF calls[n].time = t THEN Append(ChecksOf(t, n - 1), calls[n].check)
    ELSE ChecksOf(t, n - 1)

\* the comparisons a decided candidate can have gone through, by the check
\* that decided it
DecidedBy(checks) ==
    LET n == Len(checks)
    IN  IF n = 0 THEN "black"
        ELSE IF checks[n] = "hist" THEN "histogram"
        ELSE IF /\ n >= 2 /\ checks[n] = "stab_long" /\ checks[n - 1] = "stab_short"
                /\ \A k \in 1..(n - 2) : checks[k] = "hist"
             THEN "stability"
        ELSE "none"

\* C14. Cascade output: verify_candidates gives every input candidate exactly
\* one terminal state, PASS or FAIL, stops checking a candidate at its first
\* decisive check, and returns exactly the PASSed candidates, a subsequence
\* of its input in the input's order, each unchanged.
C14_CascadeOutput ==
    Found =>
        /\ Len(outcome) <= Len(cuts)
        /\ \A i \in DOMAIN outcome : outcome[i] \in {"PASS", "FAIL"}
        /\ pc \in {"loop", "done"} => Len(outcome) = idx - 1
        /\ pc \in {"audio", "borderline", "flash", "raised"} => Len(outcome) = idx - 1
        /\ pc = "done" => Len(outcome) = Len(cuts)
        /\ verified = PassedUpTo(Len(outcome))
        /\ \A k \in DOMAIN calls :
              /\ \E i \in TakenUp : cuts[i].time = calls[k].time
              /\ \A l \in DOMAIN calls : k < l => calls[k].time <= calls[l].time
        /\ \A i \in DOMAIN outcome :
              LET by == DecidedBy(ChecksOf(cuts[i].time, Len(calls)))
              IN  /\ by # "none"
                  /\ by = "black" => outcome[i] = "PASS"
                  /\ by = "histogram" => outcome[i] = "FAIL"

\* C14 witness: the call returned after dropping one candidate on its first
\* histogram check and keeping a later one.
C14_Witness ==
    /\ pc = "done"
    /\ \E i \in DOMAIN cuts, j \in DOMAIN cuts :
          /\ i < j
          /\ outcome[i] = "FAIL"
          /\ ChecksOf(cuts[i].time, Len(calls)) = <<"hist">>
          /\ outcome[j] = "PASS"
    /\ Len(verified) < Len(cuts)

\* C15. Missing frame data: when a frame a check needs cannot be extracted
\* or read, a candidate without black-frame bypass is excluded from the
\* verified cuts (fail closed), while a black-frame-bypassed candidate is
\* still included (fail open).
C15_MissingFrames ==
    /\ last.missing # {} =>
          /\ last.verdict # "PASS"
          /\ \A i \in Judged : \A k \in DOMAIN verified : verified[k] # cuts[i]
    /\ \A i \in DOMAIN outcome : cuts[i].black_duration >= 2 => outcome[i] = "PASS"

\* C16. Per-candidate failure isolation: an error the frame extraction or
\* comparison raises while candidate i is being verified is caught for that
\* candidate; verify_candidates goes on with the remaining candidates and
\* returns a list, so no call ends in the error.
C16_FailureIsolation ==
    /\ pc # "raised"
    /\ last.verdict = "RAISE" => pc \in {"loop", "done"}

\* the input is 200 scene events of score 3 spread evenly over seconds
\* 100-130, the last one in second 129 or at 130.0
NoiseScenario ==
    /\ pc \in {"zoned", "built"}
    /\ scenes \in {SpreadEvenly(200, 200), SpreadEvenly(200, 199)}

\* C17 as amended. Noise scenario: for 200 scene events of score 3 spread
\* evenly over seconds 100-130, detect_noise_zones reports exactly one zone;
\* it starts at 100 and ends one second after the second of the last event,
\* at 130 (at 131 when the last event is at 130.0), and find_cuts builds no
\* candidate from the interval.
C17_NoiseScenario ==
    NoiseScenario =>
        /\ Len(noise_zones) = 1
        /\ noise_zones[1].start = 1000
        /\ noise_zones[1].end = (scenes[Len(scenes)].time \div 10 + 1) * 10
        /\ noise_zones[1].end \in {1300, 1310}
        /\ noise_zones[1].detection_count = 200
        /\ pc = "built" => all_candidates = <<>>

\* C17 witness: the events ran up to 129.8 s, the one zone found is
\* [100, 130], and no candidate was built.
C17_Witness ==
    /\ pc = "built"
    /\ Len(scenes) = 200
    /\ scenes[1].time = 1000
    /\ scenes[200].time = 1298
    /\ noise_zones = <<NoiseZone(1000, 1300, 200)>>
    /\ all_candidates = <<>>

\* C17 as stated: the one zone spans approximately [100, 139], its end
\* within a second of 139.
C17_AsStated ==
    NoiseScenario =>
        /\ Len(noise_zones) = 1
        /\ noise_zones[1].start = 1000
        /\ noise_zones[1].end >= 1380
        /\ noise_zones[1].end <= 1400
        /\ pc = "built" => all_candidates = <<>>

Zoned == pc \in {"zoned", "built"}

\* C18. Noise zones are ordered and disjoint: the list detect_noise_zones
\* returns is sorted by start, each zone's end is strictly less than the
\* next zone's start, and every zone has start < end.
C18_ZonesDisjoint ==
    Zoned =>
        /\ \A i \in DOMAIN noise_zones : noise_zones[i].start < noise_zones[i].end
        /\ \A i \in DOMAIN noise_zones, j \in DOMAIN noise_zones :
              i < j => /\ noise_zones[i].start < noise_zones[j].start
                       /\ noise_zones[i].end < noise_zones[j].start

\* C18 witness: two zones were returned, six seconds apart, neither of them
\* the result of a merge.
C18_Witness ==
    /\ Zoned
    /\ Len(noise_zones) = 2
    /\ noise_zones[2].start - noise_zones[1].end = 60
    /\ raw_zones = noise_zones

\* zone r of the grouping loop went into the returned zone m
InZone(r, m) == m.start <= r.start /\ r.end <= m.end

\* the zones of the grouping loop that went into the returned zone m
Members(m) == {i \in DOMAIN raw_zones : InZone(raw_zones[i], m)}

\* consecutive zones i and i + 1 of the grouping loop were coalesced
Coalesced(i) ==
    \E k \in DOMAIN noise_zones :
        InZone(raw_zones[i], noise_zones[k]) /\ InZone(raw_zones[i + 1], noise_zones[k])

\* the gap between the end of zone i and the start of zone i + 1
GapAfter(i) == raw_zones[i + 1].start - raw_zones[i].end

RECURSIVE CountSum(_)
CountSum(I) ==
    IF I = {} THEN 0
    ELSE LET i == SetMin(I) IN raw_zones[i].detection_count + CountSum(I \ {i})

\* a returned zone spans from its first member's start to its last member's
\* end and counts the sum of its members' detection counts
SpansItsMembers(m) ==
    /\ Members(m) # {}
    /\ m.start = raw_zones[SetMin(Members(m))].start
    /\ m.end = raw_zones[SetMax(Members(m))].end
    /\ m.detection_count = CountSum(Members(m))

\* C19 as amended. Zone merging: two consecutive zones are coalesced into
\* one exactly when the gap between the first's end and the second's start
\* is at most the merge gap (5 s), a gap equal to the merge gap included;
\* the merged zone spans from the first start to the last end and its
\* detection_count is the sum of the merged zones' counts.
C19_ZoneMerging ==
    Zoned =>
        /\ \A i \in 1..(Len(raw_zones) - 1) : Coalesced(i) <=> GapAfter(i) <= 50
        /\ \A i \in DOMAIN raw_zones :
              Cardinality({k \in DOMAIN noise_zones :
                              InZone(raw_zones[i], noise_zones[k])}) = 1
        /\ \A k \in DOMAIN noise_zones : SpansItsMembers(noise_zones[k])

\* C19 witness: two zones exactly 5 s apart were coalesced into one zone
\* with the sum of their counts.
C19_Witness ==
    /\ Zoned
    /\ Len(raw_zones) = 2
    /\ GapAfter(1) = 50
    /\ noise_zones = <<NoiseZone(raw_zones[1].start, raw_zones[2].end,
                                 raw_zones[1].detection_count
                                   + raw_zones[2].detection_count)>>

\* C19 as stated: consecutive zones are coalesced exactly when the gap is
\* less than the merge gap; zones whose gap equals it stay separate.
C19_AsStated ==
    Zoned => \A i \in 1..(Len(raw_zones) - 1) : Coalesced(i) <=> GapAfter(i) < 50

\* the scene events of second t that noise suppression leaves in place
KeptIn(t) ==
    {i \in DOMAIN scenes :
        /\ scenes[i].time \div 10 = t
        /\ ~\E j \in DOMAIN noise_zones :
                /\ noise_zones[j].start + 50 < scenes[i].time
                /\ scenes[i].time < noise_zones[j].end - 50}

\* the candidates built from the scene events of second t
SceneCandidatesAt(t) ==
    {k \in DOMAIN all_candidates :
        all_candidates[k].time \div 10 = t /\ all_candidates[k].scene_score > 0}

RECURSIVE ScoreSum(_)
ScoreSum(I) ==
    IF I = {} THEN 0
    ELSE LET i == SetMin(I) IN scenes[i].score + ScoreSum(I \ {i})

\* find_cuts has just returned; scenes, noise_zones and all_candidates stay
\* as they are from here on
JustFound == pc = "loop" /\ idx = 1

\* C20. Strength floor: find_cuts builds a scene candidate for an integer
\* second iff, after noise suppression, that second holds at least one scene
\* event with score >= 8; a second whose events all score below 8 yields no
\* candidate however large the sum of their scores.
C20_StrengthFloor ==
    JustFound =>
        \A t \in {scenes[i].time \div 10 : i \in DOMAIN scenes} :
            /\ SceneCandidatesAt(t) # {} <=> \E i \in KeptIn(t) : scenes[i].score >= 80
            /\ Cardinality(SceneCandidatesAt(t)) <= 1

\* C20 witness: a second whose three events of score 3.0 sum up to 9.0 gave
\* no candidate, the next second with a further event of score 8.5 gave one,
\* and an event of score 12.5 inside the noise zone gave none.
C20_Witness ==
    /\ JustFound
    /\ \E t \in {scenes[i].time \div 10 : i \in DOMAIN scenes} :
          /\ KeptIn(t) # {}
          /\ \A i \in KeptIn(t) : scenes[i].score < 80
          /\ ScoreSum(KeptIn(t)) >= 80
          /\ SceneCandidatesAt(t) = {}
          /\ \E i \in KeptIn(t + 1) : scenes[i].score = 85
          /\ SceneCandidatesAt(t + 1) # {}
    /\ \E i \in DOMAIN scenes :
          /\ scenes[i].score = 125
          /\ i \notin KeptIn(scenes[i].time \div 10)
          /\ SceneCandidatesAt(scenes[i].time \div 10) = {}

\* the candidate list of find_cuts is complete and nothing is selected yet
Built == pc = "built"

\* C21. Candidate anchoring: every scene candidate stands at the time of the
\* highest-scoring surviving event of its integer second, the first such event
\* in input order on a tie, and its scene_score is the sum of the scores of
\* all surviving events of that second.
C21_Anchoring ==
    Built =>
        \A k \in DOMAIN all_candidates :
            all_candidates[k].scene_score > 0 =>
                LET c == all_candidates[k]
                    K == KeptIn(c.time \div 10)
                IN  /\ \E i \in K :
                          /\ scenes[i].time = c.time
                          /\ \A j \in K : scenes[j].score <= scenes[i].score
                          /\ \A j \in K : j < i => scenes[j].score < scenes[i].score
                    /\ c.scene_score = ScoreSum(K)

\* C21 witness: two events of one second tie at the highest score at
\* different times; the candidate stands at the first of them, not between
\* them, and carries the sum of both scores.
C21_Witness ==
    /\ Built
    /\ \E k \in DOMAIN all_candidates :
          \E i, j \in KeptIn(all_candidates[k].time \div 10) :
              /\ i < j
              /\ scenes[i].score = scenes[j].score
              /\ scenes[i].time < scenes[j].time
              /\ all_candidates[k].time = scenes[i].time
              /\ all_candidates[k].scene_score = scenes[i].score + scenes[j].score

\* the audio steps reported for the seconds t-2 .. t+2
StepsNear(t) ==
    {audio_changes[a].step : a \in {b \in DOMAIN audio_changes :
                                       /\ audio_changes[b].time >= t - 2
                                       /\ audio_changes[b].time <= t + 2}}

\* C22. Audio bonus gate: a scene candidate whose second has a highest
\* surviving score below 10 is built with audio_step 0 whatever audio steps
\* lie within 2 s, so it scores no audio points and is below the 5 dB that
\* verify_candidates asks of an audio-corroborated candidate; from 10 on its
\* audio_step is the largest audio step within 2 s (0 when there is none).
C22_AudioGate ==
    Built =>
        \A k \in DOMAIN all_candidates :
            all_candidates[k].scene_score > 0 =>
                LET c == all_candidates[k]
                    t == c.time \div 10
                IN  IF \A i \in KeptIn(t) : scenes[i].score < 100
                    THEN /\ c.audio_step = 0
                         /\ ~(c.audio_step >= 50)
                         /\ Points(c) = c.scene_score \div 10
                                          + (IF c.black_duration >= 2 THEN 10 ELSE 0)
                    ELSE /\ c.audio_step \in StepsNear(t) \cup {0}
                         /\ \A s \in StepsNear(t) : s <= c.audio_step

\* C22 witness: two events of score 8.5 in one second sum up to 17.0, an
\* audio step of at least 5 dB lies within 2 s, and the candidate carries
\* audio_step 0.
C22_Witness ==
    /\ Built
    /\ \E k \in DOMAIN all_candidates :
          LET c == all_candidates[k]
              t == c.time \div 10
          IN  /\ c.scene_score = 170
              /\ \A i \in KeptIn(t) : scenes[i].score = 85
              /\ \E s \in StepsNear(t) : s >= 50
              /\ c.audio_step = 0

\* the candidates of second t
CandidatesAt(t) == {k \in DOMAIN all_candidates : all_candidates[k].time \div 10 = t}

\* C23. Audio-only candidates: for every second t with an audio step of at
\* least 15 and no scene cluster, find_cuts builds exactly one candidate, at
\* time t with scene_score 0 and that audio step; it builds no audio-only
\* candidate for a second that has a scene cluster or a step below 15.
C23_AudioOnly ==
    Built =>
        /\ \A a \in DOMAIN audio_changes :
              LET t == audio_changes[a].time
              IN  IF audio_changes[a].step >= 150 /\ KeptIn(t) = {}
                  THEN /\ Cardinality(CandidatesAt(t)) = 1
                       /\ \A k \in CandidatesAt(t) :
                             /\ all_candidates[k].time = t * 10
                             /\ all_candidates[k].scene_score = 0
                             /\ all_candidates[k].audio_step = audio_changes[a].step
                  ELSE \A k \in CandidatesAt(t) : all_candidates[k].scene_score > 0
        /\ \A k \in DOMAIN all_candidates :
              all_candidates[k].scene_score = 0 =>
                  \E a \in DOMAIN audio_changes :
                      audio_changes[a].time * 10 = all_candidates[k].time

\* C23 witness: an audio step of exactly 15 in a second whose scene events
\* were all suppressed as noise gave the audio-only candidate of that second.
C23_Witness ==
    /\ Built
    /\ \E a \in DOMAIN audio_changes :
          LET t == audio_changes[a].time
          IN  /\ audio_changes[a].step = 150
              /\ \E i \in DOMAIN scenes : scenes[i].time \div 10 = t
              /\ KeptIn(t) = {}
              /\ \E k \in DOMAIN all_candidates :
                    /\ all_candidates[k].time = t * 10
                    /\ all_candidates[k].scene_score = 0
                    /\ all_candidates[k].audio_step = 150

\* find_cuts has returned its selection
Selected == pc = "selected"

\* a black event of at least 0.2 s ends in the integer second of time t
BlackEndsIn(t) ==
    \E b \in DOMAIN blacks :
        blacks[b].end_time \div 10 = t \div 10 /\ blacks[b].duration >= 2

\* C28. Audio-only selection under defaults: with min_confidence 12 an
\* audio-only candidate is selected only if a black event of at least 0.2 s
\* ends in its integer second; without one it scores 10 and is not selected,
\* whatever its audio step.
C28_AudioOnlySelection ==
    (Selected /\ min_confidence = 12) =>
        /\ \A k \in DOMAIN cuts :
              cuts[k].scene_score = 0 => BlackEndsIn(cuts[k].time)
        /\ \A k \in DOMAIN all_candidates :
              (all_candidates[k].scene_score = 0 /\ ~BlackEndsIn(all_candidates[k].time)) =>
                  /\ Points(all_candidates[k]) = 10
                  /\ \A j \in DOMAIN cuts : cuts[j].time # all_candidates[k].time

\* C28 witness: an audio-only candidate with a black event of 0.2 s ending
\* two seconds later, inside the window that scene candidates search, scores
\* 10 and is not selected.
C28_Witness ==
    /\ Selected
    /\ min_confidence = 12
    /\ \E k \in DOMAIN all_candidates :
          LET c == all_candidates[k]
          IN  /\ c.scene_score = 0
              /\ c.audio_step >= 150
              /\ \E b \in DOMAIN blacks :
                    /\ blacks[b].end_time \div 10 = c.time \div 10 + 2
                    /\ blacks[b].duration >= 2
              /\ Points(c) = 10
              /\ \A j \in DOMAIN cuts : cuts[j].time # c.time

\* the events of S strictly inside a zone of Z, more than 5 s from both ends
Interior(i) ==
    \E j \in DOMAIN Z : Z[j].start + 50 < S[i].time /\ S[i].time < Z[j].end - 50

\* the positions of S that are not interior, in ascending order
Exterior == Ascending({i \in DOMAIN S : ~Interior(i)})

\* C25. Interior-only suppression: suppress_noise_detections removes exactly
\* the events whose time t satisfies start + 5 < t < end - 5 for some zone and
\* returns the others unchanged in their input order; so an event within 5 s
\* of a zone boundary and every event of a zone no longer than 10 s is kept.
C25_InteriorOnly ==
    pc = "suppressed" =>
        /\ once = [k \in DOMAIN Exterior |-> S[Exterior[k]]]
        /\ \A i \in DOMAIN S :
              (\A j \in DOMAIN Z :
                  \/ S[i].time <= Z[j].start + 50
                  \/ S[i].time >= Z[j].end - 50
                  \/ Z[j].end - Z[j].start <= 100) => S[i] \in Range(once)

\* C25 witness: of the events at 5.0 s, 10.0 s and 15.0 s in the zone [0, 20]
\* the first and the last, exactly 5 s from a boundary, are kept and the
\* middle one is removed.
C25_Witness ==
    /\ pc = "suppressed"
    /\ Z = <<[start |-> 0, end |-> 200, detection_count |-> 60]>>
    /\ Len(S) = 3 /\ S[1].time = 50 /\ S[2].time = 100 /\ S[3].time = 150
    /\ Len(once) = 2 /\ once[1].time = 50 /\ once[2].time = 150

\* the integer seconds that hold a scene event
EventSeconds == {scenes[i].time \div 10 : i \in DOMAIN scenes}

\* second s holds events and no other second within 10 s of it does
Isolated(s) ==
    /\ s \in EventSeconds
    /\ \A u \in EventSeconds : u # s => (u < s - 10 \/ u > s + 10)

\* C26. Single busy cut is not noise: a burst of scene events confined to one
\* integer second, with no events in any other second within 10 s of it, lies
\* in no noise zone, however many events it has and wherever the other events
\* of the input lie.
C26_BusyCut ==
    Zoned =>
        \A s \in EventSeconds :
            Isolated(s) =>
                ~\E j \in DOMAIN noise_zones :
                      noise_zones[j].start <= s * 10 /\ s * 10 < noise_zones[j].end

\* C27. Zone count accuracy: the detection_count of every zone returned by
\* detect_noise_zones, merged zones included, is the number of input scene
\* events whose integer second lies in [start, end).
C27_ZoneCount ==
    Zoned =>
        \A j \in DOMAIN noise_zones :
            noise_zones[j].detection_count =
                Cardinality({i \in DOMAIN scenes :
                                /\ noise_zones[j].start <= (scenes[i].time \div 10) * 10
                                /\ (scenes[i].time \div 10) * 10 < noise_zones[j].end})

\* the candidate verify_candidates has just decided
JustDecided == pc = "loop" /\ idx > 1

Logged == pc = "done"

\* C29. Diagnostic rejection reason: in the candidate log every candidate
\* labelled "skip (too close)" has a confidence of at least min_confidence
\* and lies within min_gap of another candidate that find_cuts selected,
\* every candidate labelled SELECTED is in the verified cut list, and a
\* candidate rejected by verification is never labelled "skip (too close)".
C29_RejectionReason ==
    Logged =>
        \A k \in DOMAIN all_candidates :
            LET c     == all_candidates[k]
                label == selected_label(c, verified, min_confidence)
            IN  /\ label = "skip (too close)" =>
                      /\ Points(c) >= min_confidence
                      /\ \E j \in DOMAIN cuts :
                            /\ cuts[j] # c
                            /\ Abs(c.time - cuts[j].time) < min_gap
                      /\ c \notin Range(cuts)
                /\ label = "SELECTED" => c \in Range(verified)

\* C30. Distinct segment files: for a verified cut list produced with
\* min_gap >= 1.0, split_video gives the len(cuts) + 1 segments it writes
\* pairwise distinct output paths, so no segment overwrites another's file.
C30_DistinctFiles ==
    (pc \in {"segment", "split_done", "split_failed"} /\ min_gap >= 10) =>
        /\ pc = "split_done" => Len(output_files) = Len(cuts) + 1
        /\ \A i, j \in DOMAIN output_files :
              i # j => output_files[i] # output_files[j]

====
